---- MODULE Spec2Model ----
(***************************************************************************)
(* State-machine model of the API session/bootstrap class of               *)
(* guilded-stats: the desktop-shell variant (api.ts, kept as               *)
(* src/unnamed/part_000, "tauri") and the standalone-process variant       *)
(* (src/src/backend/fetch.ts lines 42.., "bun").                           *)
(*                                                                         *)
(* JavaScript values that may be undefined are kept as options:            *)
(*   Undef = <<>>, Some(v) = <<v>>.                                        *)
(* File contents are sequences of one-character strings, so that split     *)
(* and the host pattern are computed character by character.               *)
(***************************************************************************)
EXTENDS Integers, Sequences, FiniteSets, TLC

\* ------------------------------------------------------------------ bounds
\* Number of operations (setupClient, connectToSocket, accessors, ...) that
\* callers start in one behaviour.
MaxCalls == 2
\* Number of socket connections that can be created in one behaviour.
MaxConns == 2

\* The callers: two independent async call chains of the UI / the host.
Procs == {"p1", "p2"}

Variants == {"tauri", "bun"}

\* ------------------------------------------------------------- JS values
Undef == <<>>
Some(v) == <<v>>
IsSet(o) == o # Undef
Val(o) == o[1]

\* !x for the values the static fields hold: undefined is falsy and an
\* object is truthy; of the strings (sequences of characters) "" is falsy.
Falsy(o) == o = Undef
FalsyString(o) == o = Undef \/ Len(Val(o)) = 0

\* ------------------------------------------------------- character data
Digits == <<"0", "1", "2", "3", "4", "5", "6", "7", "8", "9">>
IsDigit(c) == \E i \in 1..10 : Digits[i] = c
DigitVal(c) == (CHOOSE i \in 1..10 : Digits[i] = c) - 1
IsSpace(c) == c \in {" ", "\n", "\r", "\t"}
LineTerminator(c) == c \in {"\n", "\r"}

\* String.prototype.trim, as applied by the unary + conversion.
RECURSIVE TrimLeft(_)
TrimLeft(s) == IF s # <<>> /\ IsSpace(Head(s)) THEN TrimLeft(Tail(s)) ELSE s
RECURSIVE TrimRight(_)
TrimRight(s) ==
    IF s # <<>> /\ IsSpace(s[Len(s)]) THEN TrimRight(SubSeq(s, 1, Len(s) - 1)) ELSE s
Trim(s) == TrimRight(TrimLeft(s))

RECURSIVE DecimalValue(_)
DecimalValue(s) ==
    IF s = <<>> THEN 0
    ELSE 10 * DecimalValue(SubSeq(s, 1, Len(s) - 1)) + DigitVal(s[Len(s)])

\* The unary + of `+processId` / `+port`: a number as Some(n), NaN as Undef.
\* +undefined is NaN, +"" is 0, surrounding white space is ignored, and a
\* string of decimal digits is its value; any other text of the alphabet
\* used here is NaN.
NaN == Undef
ToNumber(o) ==
    IF o = Undef THEN NaN
    ELSE LET t == Trim(Val(o)) IN
         IF \A i \in 1..Len(t) : IsDigit(t[i]) THEN Some(DecimalValue(t)) ELSE NaN

\* text.split(":"): the fields between the separators, in order.
RECURSIVE Split(_, _)
Split(text, sep) ==
    IF \A i \in 1..Len(text) : text[i] # sep THEN <<text>>
    ELSE LET k == CHOOSE i \in 1..Len(text) :
                      text[i] = sep /\ \A j \in 1..(i - 1) : text[j] # sep
         IN <<SubSeq(text, 1, k - 1)>> \o Split(SubSeq(text, k + 1, Len(text)), sep)

\* Array destructuring: element i, undefined past the end.
Elem(arr, i) == IF i <= Len(arr) THEN Some(arr[i]) ELSE Undef

\* LockInfo as it would be with processId and port taken from each other's
\* field.
LockInfoSwapped(text) ==
    LET f == Split(text, ":") IN
    [username  |-> Elem(f, 1),
     processId |-> ToNumber(Elem(f, 3)),
     port      |-> ToNumber(Elem(f, 2)),
     password  |-> Elem(f, 4),
     protocol  |-> Elem(f, 5)]

\* The object parseLockFile stores in API.apiInfo.
LockInfo(text) ==
    LET f == Split(text, ":") IN
    [username  |-> Elem(f, 1),
     processId |-> ToNumber(Elem(f, 2)),
     port      |-> ToNumber(Elem(f, 3)),
     password  |-> Elem(f, 4),
     protocol  |-> Elem(f, 5)]

\* ------------------------------------------------- the host pattern (regex)
\* text.match("https://glz-(.+?)-1.(.+?).a.pvp.net"): the string becomes a
\* RegExp without flags, so every "." is a wildcard for one character that
\* is not a line terminator and both groups are lazy.
Lit(s) == [i \in 1..Len(s) |-> [t |-> "lit", c |-> s[i]]]
AnyChar == <<[t |-> "any", c |-> ""]>>
LazyGroup == <<[t |-> "group", c |-> ""]>>
Pattern ==
    Lit(<<"h", "t", "t", "p", "s", ":", "/", "/", "g", "l", "z", "-">>) \o LazyGroup \o Lit(<<"-", "1">>) \o AnyChar \o LazyGroup
    \o AnyChar \o Lit(<<"a">>) \o AnyChar \o Lit(<<"p", "v", "p">>) \o AnyChar \o Lit(<<"n", "e", "t">>)

\* Backtracking match of Pattern[j..] at position i of text: Undef, or
\* Some(the captured groups in order).  A lazy group takes the fewest
\* characters for which the rest of the pattern matches.
RECURSIVE MatchFrom(_, _, _), MatchGroup(_, _, _, _)
MatchFrom(text, i, j) ==
    IF j > Len(Pattern) THEN Some(<<>>)
    ELSE LET tok == Pattern[j] IN
         IF tok.t = "group" THEN MatchGroup(text, i, j, 1)
         ELSE IF i > Len(text) THEN Undef
         ELSE IF tok.t = "lit" /\ text[i] # tok.c THEN Undef
         ELSE IF tok.t = "any" /\ LineTerminator(text[i]) THEN Undef
         ELSE MatchFrom(text, i + 1, j + 1)
MatchGroup(text, i, j, n) ==
    IF i + n - 1 > Len(text) \/ LineTerminator(text[i + n - 1]) THEN Undef
    ELSE LET rest == MatchFrom(text, i + n, j + 1) IN
         IF rest # Undef THEN Some(<<SubSeq(text, i, i + n - 1)>> \o Val(rest))
         ELSE MatchGroup(text, i, j, n + 1)

\* The leftmost match: Undef for null, else Some(<<match[1], match[2]>>).
RECURSIVE SearchFrom(_, _)
SearchFrom(text, i) ==
    IF i > Len(text) THEN Undef
    ELSE LET m == MatchFrom(text, i, 1) IN
         IF m # Undef THEN m ELSE SearchFrom(text, i + 1)
MatchHost(text) == SearchFrom(text, 1)

\* ------------------------------------------ contents of the two local files
\* username:processId:port:password:protocol, as the game client writes it
\* at each launch (the password rotates per launch).
LockA == <<"r", "i", "o", "t", ":", "7", "1", ":", "5", "2", ":", "p", "w", "A", ":", "h", "t", "t", "p", "s">>
LockB == <<"r", "i", "o", "t", ":", "9", "3", ":", "6", "4", ":", "p", "w", "B", ":", "h", "t", "t", "p", "s">>
LockTexts == {LockA, LockB}

HostNA == <<"h", "t", "t", "p", "s", ":", "/", "/", "g", "l", "z", "-", "n", "a", "-", "1", ".", "n", "a", ".", "a", ".", "p", "v", "p", ".", "n", "e", "t">>
\* A log in which no session has connected yet, and logs naming a host.
LogBoot == <<"L", "o", "g", "\n">>
LogNA == LogBoot \o HostNA \o <<"\n">>
LogTexts == {LogBoot, LogNA}

\* Other contents the lock file can have: a field short, a field more, a
\* port that is no number, an empty processId, and a final line break.
LockMalformed ==
    {<<"r", "i", "o", "t", ":", "7", "1", ":", "5", "2", ":", "p", "w", "A">>,
     LockA \o <<":", "x">>,
     <<"r", "i", "o", "t", ":", "7", "1", ":", "5", "x", ":", "p", "w", "A", ":", "h", "t", "t", "p", "s">>,
     <<"r", "i", "o", "t", ":", ":", "5", "2", ":", "p", "w", "A", ":", "h", "t", "t", "p", "s">>}
LockNewline == LockA \o <<"\n">>
LockContents == LockTexts \cup LockMalformed \cup {LockNewline}

\* Other contents the log can have: another host alone, before and after
\* the first one, and the host in the middle of a line.
HostEU == <<"h", "t", "t", "p", "s", ":", "/", "/", "g", "l", "z", "-", "e", "u", "-", "1", ".", "e", "u", ".", "a", ".", "p", "v", "p", ".", "n", "e", "t">>
LogContents ==
    LogTexts \cup {LogBoot \o HostEU \o <<"\n">>,
                   LogBoot \o HostEU \o <<"\n">> \o HostNA \o <<"\n">>,
                   LogBoot \o HostNA \o <<"\n">> \o HostEU \o <<"\n">>,
                   <<"G", "E", "T", " ">> \o HostNA \o <<"/", "x", " ", "o", "k", "\n">>}

\* The outcome of parseLogFile's match for each log (computed once).
HostOf == [t \in LogContents |-> MatchHost(t)]
InfoOf == [t \in LockContents |-> LockInfo(t)]

\* ----------------------------------------------------------- HTTP layer
\* What the local / remote service answers: the outbound primitive either
\* fails (no response) or delivers a status and a body.
TransportFailure ==
    [success |-> FALSE, status |-> 0, body |-> "", headers |-> [h \in {} |-> ""]]
Reply(status, body) ==
    [success |-> TRUE, status |-> status, body |-> body,
     headers |-> [h \in {"content-type"} |-> "application/json"]]

\* Bodies the services send, by name, and what JSON.parse makes of them.
\* "<html>" is a body that is no JSON: JSON.parse / response.json() throw.
Parsed ==
    [chat1 |-> [puuid |-> "u1"],
     chat2 |-> [puuid |-> "u2"],
     sessRV |-> <<[productId |-> "riot_client", version |-> "r1"],
                  [productId |-> "valorant", version |-> "v1"],
                  [productId |-> "valorant", version |-> "v2"]>>,
     sessR |-> <<[productId |-> "riot_client", version |-> "r1"]>>,
     ent1 |-> [accessToken |-> "a1", token |-> "t1"],
     ent2 |-> [accessToken |-> "a2", token |-> "t2"],
     help |-> [kind |-> "help"],
     data |-> [kind |-> "data"],
     err |-> [errorCode |-> "RESOURCE_NOT_FOUND"]]
WellFormed(body) == body \in DOMAIN Parsed

GoodBodies(ep) ==
    CASE ep = "chat/v1/session" -> {"chat1", "chat2"}
      [] ep = "product-session/v1/sessions" -> {"sessRV", "sessR"}
      [] ep = "entitlements/v1/token" -> {"ent1", "ent2"}
      [] ep = "help" -> {"help"}
      [] OTHER -> {"data"}

\* The body of a 201 answer.
Created(ep) ==
    CASE ep = "chat/v1/session" -> "chat1"
      [] ep = "product-session/v1/sessions" -> "sessRV"
      [] ep = "entitlements/v1/token" -> "ent1"
      [] ep = "help" -> "help"
      [] OTHER -> "data"

\* The answers a service can give to a request for endpoint ep.
Responses(ep) ==
    {TransportFailure, Reply(201, Created(ep)), Reply(404, "err"), Reply(500, "<html>")}
    \cup {Reply(200, b) : b \in GoodBodies(ep)}

\* How an async function ends: it returns a value or throws.  What is thrown
\* is `new Error(message)` (or a built-in error): it has a message and
\* nothing else, so `detail`, the data attached to the error, is Undef.
Return(v) == [kind |-> "return", value |-> v, message |-> "", detail |-> Undef]
Throw(msg) == [kind |-> "throw", value |-> FALSE, message |-> msg, detail |-> Undef]
Returned(o) == o.kind = "return"

JSONParse(body) ==
    IF WellFormed(body) THEN Return(Parsed[body]) ELSE Throw("SyntaxError")

\* The request the fetch shim hands to invoke("fetch", ...): the method is
\* `options?.method ?? "GET"`, headers and body are passed as they are
\* (Undef when absent).
ShimRequest(url, options) ==
    [url |-> url,
     headers |-> IF "headers" \in DOMAIN options THEN Some(options.headers) ELSE Undef,
     method |-> IF "method" \in DOMAIN options THEN options.method ELSE "GET",
     body |-> IF "body" \in DOMAIN options THEN Some(options.body) ELSE Undef]

\* The fetch shim as it would be if it rejected every status but 200 itself.
ShimFetchStrict(resp) ==
    IF ~resp.success \/ resp.status # 200 THEN Throw("Unable to complete HTTP request.")
    ELSE Return(resp)
\* The fetch shim of the desktop-shell variant (fetch.ts lines 22-40).
ShimFetch(resp) ==
    IF ~resp.success THEN Throw("Unable to complete HTTP request.")
    ELSE Return(resp)

\* The global fetch of the standalone-process variant: a network failure
\* rejects; response.ok is true for the statuses 200..299.
GlobalFetch(resp) ==
    IF ~resp.success THEN Throw("TypeError: fetch failed") ELSE Return(resp)
ResponseOk(resp) == resp.status >= 200 /\ resp.status <= 299

\* What localRequest / remoteRequest make of the service's answer, from the
\* line after `await fetch(...)` on.  Both functions share this code.
TauriRequestResult(resp) ==
    LET r == ShimFetch(resp) IN
    IF ~Returned(r) THEN r
    ELSE IF r.value.status # 200 THEN Throw("Failed to fetch data.")
    ELSE JSONParse(r.value.body)

BunRequestResult(resp) ==
    LET r == GlobalFetch(resp) IN
    IF ~Returned(r) THEN r
    ELSE IF ~ResponseOk(r.value)
         THEN \* console.error(..., await response.json()) runs first
              IF Returned(JSONParse(r.value.body))
              THEN Throw("Failed to fetch data.") ELSE JSONParse(r.value.body)
    ELSE JSONParse(r.value.body)

RequestResult(v, resp) ==
    IF v = "tauri" THEN TauriRequestResult(resp) ELSE BunRequestResult(resp)

\* { ...base, ...requestInfo }: the keys of requestInfo replace those of base.
Spread(base, more) ==
    [k \in DOMAIN base \cup DOMAIN more |->
        IF k \in DOMAIN more THEN more[k] ELSE base[k]]
NoOptions == [k \in {} |-> Undef]

BasicAuth(password) == <<"Basic", "btoa", "riot:", password>>
Bearer(token) == <<"Bearer ", token>>
ClientPlatform == "ew0KCSJwbGF0Zm9ybVR5cGUiOiAiUEMiLA0K..."

\* The request localRequest hands to fetch.
LocalRequest(api, path, requestInfo) ==
    [kind |-> "local",
     url |-> [scheme |-> Val(api.apiInfo).protocol, host |-> "127.0.0.1",
              region |-> Undef, shard |-> Undef,
              port |-> Val(api.apiInfo).port, path |-> path],
     init |-> Spread(
        [headers |-> [h \in {"Authorization"} |->
                         Some(BasicAuth(Val(api.apiInfo).password))]],
        requestInfo)]

\* remoteRequest as it would be if it chose the host by the path.
RemoteRequestByPath(api, path, requestInfo, query) ==
    [kind |-> "remote",
     query |-> query,
     url |-> IF path.ep \in {"match-history/v1/history/", "match-details/v1/matches/"}
             THEN [scheme |-> Some("https"), host |-> "pd", region |-> Undef,
                   shard |-> api.shard, port |-> Undef, path |-> path]
             ELSE [scheme |-> Some("https"), host |-> "glz", region |-> api.region,
                   shard |-> api.shard, port |-> Undef, path |-> path],
     init |-> Spread(
        [headers |->
            [h \in {"X-Riot-ClientPlatform", "X-Riot-ClientVersion",
                    "X-Riot-Entitlements-JWT", "Authorization"} |->
                CASE h = "X-Riot-ClientPlatform" -> Some(ClientPlatform)
                  [] h = "X-Riot-ClientVersion" -> api.clientVersion
                  [] h = "X-Riot-Entitlements-JWT" -> api.entitlementToken
                  [] OTHER -> Some(Bearer(api.authToken))]],
        requestInfo)]

\* The request remoteRequest hands to fetch; query is args?.query (kept
\* with the request as history of the call).
RemoteRequest(api, path, requestInfo, query) ==
    [kind |-> "remote",
     query |-> query,
     url |-> IF query = Some("pd")
             THEN [scheme |-> Some("https"), host |-> "pd", region |-> Undef,
                   shard |-> api.shard, port |-> Undef, path |-> path]
             ELSE [scheme |-> Some("https"), host |-> "glz", region |-> api.region,
                   shard |-> api.shard, port |-> Undef, path |-> path],
     init |-> Spread(
        [headers |->
            [h \in {"X-Riot-ClientPlatform", "X-Riot-ClientVersion",
                    "X-Riot-Entitlements-JWT", "Authorization"} |->
                CASE h = "X-Riot-ClientPlatform" -> Some(ClientPlatform)
                  [] h = "X-Riot-ClientVersion" -> api.clientVersion
                  [] h = "X-Riot-Entitlements-JWT" -> api.entitlementToken
                  [] OTHER -> Some(Bearer(api.authToken))]],
        requestInfo)]

\* A request path: the endpoint, the value interpolated after it and the
\* query parameters appended to it, in order, as <<name, value>>.
PathWith(ep, arg, params) == [ep |-> ep, arg |-> arg, params |-> params]
Path(ep, arg) == PathWith(ep, arg, <<>>)

\* ------------------------------------------------------------------ state
Fields == {"apiInfo", "region", "shard", "chatSession", "entitlements",
           "riotSessions", "authToken", "playerUuid", "clientVersion",
           "entitlementToken", "socket"}
SessionState == {"chatSession", "riotSessions", "entitlements"}
DerivedIdentity == {"authToken", "playerUuid", "clientVersion", "entitlementToken"}
RoutingInfo == {"region", "shard"}
\* The snapshot each derived value is read from.
DerivedFrom ==
    [authToken |-> "entitlements", entitlementToken |-> "entitlements",
     playerUuid |-> "chatSession", clientVersion |-> "riotSessions"]

Ops == {"setupClient", "parseLockFile", "parseLogFile", "connectToSocket",
        "accessor", "localRequest", "remoteRequest"}
StepNames == {"apiInfoCached", "regionCached",
              "lockExists", "lockRead", "logExists", "logRead",
              "chat/v1/session", "product-session/v1/sessions",
              "entitlements/v1/token", "handshake", "request"}

VARIABLES
    variant,    \* which of the two implementations runs
    lockFile,   \* the lock file: Undef when absent, else Some(text)
    logFile,    \* the log file: Undef when absent, else Some(text)
    API,        \* the static fields of class API, each an option
    conns,      \* the socket connections this process created, by id
    op,         \* per caller: the public method it called last
    pc,         \* per caller: the await its call is suspended at
    req,        \* per caller: the request its call is waiting on
    conn,       \* per caller: the connection its call is waiting on (0: none)
    result,     \* per caller: how its last call ended
    answer,     \* per caller: the response its call ended on, if any
    calls,      \* number of calls started so far
    \* History of the current (or last) call of each caller:
    written,    \* the static fields the call has assigned
    steps,      \* how often the call ran each step
    failedAt,   \* the step at which the call gave up ("" if none)
    writer,     \* per static field: the caller whose current call assigned it last
    overlap,    \* pairs of callers whose setupClient calls ran at the same time
    fetchedWith, \* per snapshot and derived value: the port and credentials of
                \* the local request its value came from
    fetchOrder  \* the order in which setupClient issues its three fetches

vars == <<variant, lockFile, logFile, API, conns, op, pc, req, conn, result,
          answer, calls, written, steps, failedAt, writer, overlap, fetchedWith,
          fetchOrder>>
env == <<variant, lockFile, logFile, fetchOrder>>
hist == <<written, steps, failedAt, writer, overlap, fetchedWith>>

\* The order of the three fetches in the source.
CodeOrder ==
    <<"chat/v1/session", "product-session/v1/sessions", "entitlements/v1/token">>

\* The process has started: no field is assigned and nothing was called.
Fresh ==
    /\ fetchOrder = CodeOrder
    /\ API = [f \in Fields |-> Undef]
    /\ conns = <<>>
    /\ op = [p \in Procs |-> "setupClient"]
    /\ pc = [p \in Procs |-> "idle"]
    /\ req = [p \in Procs |-> Undef]
    /\ conn = [p \in Procs |-> 0]
    /\ result = [p \in Procs |-> Undef]
    /\ answer = [p \in Procs |-> Undef]
    /\ calls = 0
    /\ written = [p \in Procs |-> {}]
    /\ steps = [p \in Procs |-> [s \in StepNames |-> 0]]
    /\ failedAt = [p \in Procs |-> ""]
    /\ writer = [f \in Fields |-> "none"]
    /\ overlap = {}
    /\ fetchedWith = [f \in SessionState \cup DerivedIdentity |-> Undef]

Init ==
    /\ variant \in Variants
    /\ lockFile \in {Undef} \cup {Some(t) : t \in LockTexts}
    /\ logFile \in {Undef} \cup {Some(t) : t \in LogTexts}
    /\ Fresh

\* ---------------------------------------------------------- bookkeeping
Running(p) == pc[p] \notin {"idle", "done"}
InSetup(p) == op[p] = "setupClient" /\ Running(p)

\* Caller p starts a call of method m; a setupClient call overlaps the
\* setupClient calls that are in flight.
Begin(p, m) ==
    /\ ~Running(p)
    /\ calls < MaxCalls
    /\ calls' = calls + 1
    /\ op' = [op EXCEPT ![p] = m]
    /\ overlap' = {pr \in overlap : pr[1] # p /\ pr[2] # p}
                  \cup (IF m = "setupClient"
                        THEN UNION {{<<p, q>>, <<q, p>>} :
                                      q \in {q \in Procs : q # p /\ InSetup(q)}}
                        ELSE {})
\* A later step of a call that is in flight.
Resume(p, label) ==
    /\ pc[p] = label
    /\ UNCHANGED <<calls, op, overlap>>

\* Where and as whom request r was sent, and where and as whom a local
\* request built from the cached apiInfo would be sent now.
SentWith(r) == [port |-> r.url.port, auth |-> r.init.headers["Authorization"]]
SendsWith(api) ==
    [port |-> Val(api.apiInfo).port,
     auth |-> Some(BasicAuth(Val(api.apiInfo).password))]

\* The assignments of one step of caller p: fs maps the assigned fields to
\* their new values.  begun says whether the step is the first of p's call.
\* A snapshot assigned in the step is the answer to the request p awaited.
Assign(p, fs, begun) ==
    LET F == DOMAIN fs
        snap == [f \in SessionState |->
                    IF f \in F THEN Some(SentWith(Val(req[p]))) ELSE fetchedWith[f]]
        w0 == IF begun THEN {} ELSE written[p]
        wr0 == IF begun THEN [f \in Fields |-> IF writer[f] = p THEN "old" ELSE writer[f]]
               ELSE writer
    IN /\ API' = [f \in Fields |-> IF f \in F THEN Some(fs[f]) ELSE API[f]]
       /\ written' = [written EXCEPT ![p] = w0 \cup F]
       /\ writer' = [f \in Fields |-> IF f \in F THEN p ELSE wr0[f]]
       /\ fetchedWith' = [f \in SessionState \cup DerivedIdentity |->
                             IF f \in SessionState THEN snap[f]
                             ELSE IF f \in F THEN snap[DerivedFrom[f]]
                             ELSE fetchedWith[f]]
NoFields == [f \in {} |-> Undef]

\* The steps run by one atomic stretch of caller p: ss is a set of step names.
Ran(p, ss, begun) ==
    steps' = [steps EXCEPT ![p] =
                [s \in StepNames |->
                    (IF begun THEN 0 ELSE steps[p][s]) + (IF s \in ss THEN 1 ELSE 0)]]

\* Caller p's call ends with outcome o, having given up at step `at`;
\* resp is the response localRequest / remoteRequest ended on, if any.
FinishOn(p, o, at, resp) ==
    /\ pc' = [pc EXCEPT ![p] = "done"]
    /\ result' = [result EXCEPT ![p] = Some(o)]
    /\ answer' = [answer EXCEPT ![p] = resp]
    /\ failedAt' = [failedAt EXCEPT ![p] = at]
    /\ req' = [req EXCEPT ![p] = Undef]
    /\ conn' = [conn EXCEPT ![p] = 0]
Finish(p, o, at) == FinishOn(p, o, at, Undef)
\* The request r as fetch sends it: in the desktop shell through the shim,
\* which hands `invoked` to the outbound primitive.
Invoked(r) ==
    IF r = Undef \/ variant # "tauri" THEN r
    ELSE Some(("invoked" :> ShimRequest(Val(r).url, Val(r).init)) @@ Val(r))
\* Caller p's call suspends at an await: on a file operation or a log call,
\* on the answer to request r, or on connection c.
Await(p, label, r, c) ==
    /\ pc' = [pc EXCEPT ![p] = label]
    /\ result' = [result EXCEPT ![p] = Undef]
    /\ answer' = [answer EXCEPT ![p] = Undef]
    /\ failedAt' = [failedAt EXCEPT ![p] = ""]
    /\ req' = [req EXCEPT ![p] = Invoked(r)]
    /\ conn' = [conn EXCEPT ![p] = c]
Suspend(p, label) == Await(p, label, Undef, 0)

\* ------------------------------------------------------- socket channel
\* (`first` is history: the first of open / error / close the connection had.)
NewConn(info) ==
    [st |-> "connecting", port |-> info.port, password |-> info.password,
     promise |-> "pending", first |-> ""]
First(c, st) == IF c.first = "" THEN st ELSE c.first
\* resolve(v) as it would be if a later call replaced the value of the promise.
ResolveAgain(c, v) == v
\* resolve as it would be if only onopen were given a handler.
ResolveOnOpen(c, v) == IF c.promise = "pending" /\ v = "true" THEN v ELSE c.promise
\* resolve(v) of the promise of connectToSocket: only the first call counts.
Resolve(c, v) == IF c.promise = "pending" THEN v ELSE c.promise
Live == {c \in 1..Len(conns) : conns[c].st = "open"}

\* connectToSocket as it would be if it created the socket before it
\* checked apiInfo.
ConnectToSocketBodyUnchecked(p, fs, ss, begun) ==
    IF Falsy(API.apiInfo)
    THEN /\ Len(conns) < MaxConns
         /\ conns' = Append(conns, NewConn([port |-> Undef, password |-> Undef]))
         /\ Assign(p, fs @@ ("socket" :> Len(conns) + 1), begun)
         /\ Ran(p, ss \cup {"handshake"}, begun)
         /\ Finish(p, Return(FALSE), "apiInfo")
    ELSE IF variant = "tauri"
    THEN /\ Assign(p, fs, begun) /\ Ran(p, ss, begun)
         /\ Suspend(p, "sock_info")
         /\ UNCHANGED conns
    ELSE /\ Len(conns) < MaxConns
         /\ conns' = Append(conns, NewConn(Val(API.apiInfo)))
         /\ Assign(p, fs @@ ("socket" :> Len(conns) + 1), begun)
         /\ Ran(p, ss \cup {"handshake"}, begun)
         /\ Await(p, "sock_wait", Undef, Len(conns) + 1)

\* connectToSocket, from its first line to its first await (desktop shell:
\* `await info(...)`; standalone: the promise of the new socket's events).
\* fs are the assignments the caller made in the same stretch, ss its steps.
ConnectToSocketBody(p, fs, ss, begun) ==
    IF Falsy(API.apiInfo)
    THEN /\ Assign(p, fs, begun) /\ Ran(p, ss, begun)
         /\ Finish(p, Return(FALSE), "apiInfo")
         /\ UNCHANGED conns
    ELSE IF variant = "tauri"
    THEN /\ Assign(p, fs, begun) /\ Ran(p, ss, begun)
         /\ Suspend(p, "sock_info")
         /\ UNCHANGED conns
    ELSE /\ Len(conns) < MaxConns
         /\ conns' = Append(conns, NewConn(Val(API.apiInfo)))
         /\ Assign(p, fs @@ ("socket" :> Len(conns) + 1), begun)
         /\ Ran(p, ss \cup {"handshake"}, begun)
         /\ Await(p, "sock_wait", Undef, Len(conns) + 1)

\* ---------------------------------------------------------- setupClient
\* getChatSession / getSessions / getEntitlementsToken: localRequest up to
\* its `await fetch(...)`.
FetchLocal(p, label, ep, fs, ss, begun) ==
    /\ Assign(p, fs, begun)
    /\ Ran(p, ss \cup {ep}, begun)
    /\ Await(p, label, Some(LocalRequest(API, Path(ep, Undef), NoOptions)), 0)
    /\ UNCHANGED conns

\* setupClient from `API.chatSession = await API.getChatSession()` on.
FromFetches(p, ss, begun) ==
    FetchLocal(p, "chat", "chat/v1/session", NoFields, ss, begun)

\* setupClient from `if (!API.region && !await API.parseLogFile())` on.
\* ("regionCached" records that the call found region set.)
FromRoutingCheck(p, ss, begun) ==
    IF FalsyString(API.region)
    THEN /\ Assign(p, NoFields, begun)
         /\ Ran(p, ss \cup {"logExists"}, begun)
         /\ Suspend(p, "log_exists")
         /\ UNCHANGED conns
    ELSE FromFetches(p, ss \cup {"regionCached"}, begun)

\* setupClient as it would be if it re-resolved apiInfo on every call.
SetupClientBodyReparsing(p) ==
    /\ Assign(p, NoFields, TRUE)
    /\ Ran(p, {"lockExists"} \cup (IF Falsy(API.apiInfo) THEN {} ELSE {"apiInfoCached"}), TRUE)
    /\ Suspend(p, "lock_exists")
    /\ UNCHANGED conns

\* setupClient from its first line to its first await.
\* ("apiInfoCached" records that the call found apiInfo set.)
SetupClientBody(p) ==
    IF Falsy(API.apiInfo)
    THEN /\ Assign(p, NoFields, TRUE)
         /\ Ran(p, {"lockExists"}, TRUE)
         /\ Suspend(p, "lock_exists")
         /\ UNCHANGED conns
    ELSE FromRoutingCheck(p, {"apiInfoCached"}, TRUE)

SetupClient(p) ==
    /\ Begin(p, "setupClient")
    /\ SetupClientBody(p)
    /\ UNCHANGED env

\* --------------------------------------------------------- parseLockFile
\* The call of parseLockFile up to `await exists(lockFilePath)`.
ParseLockFile(p) ==
    /\ Begin(p, "parseLockFile")
    /\ Assign(p, NoFields, TRUE)
    /\ Ran(p, {"lockExists"}, TRUE)
    /\ Suspend(p, "lock_exists")
    /\ UNCHANGED <<env, conns>>

\* LockExists as it would be if setupClient went on after a failed
\* parseLockFile (a missing `return false`).
LockExistsContinuing(p) ==
    /\ Resume(p, "lock_exists")
    /\ IF lockFile = Undef
       THEN IF op[p] = "setupClient"
            THEN FromRoutingCheck(p, {}, FALSE)
            ELSE /\ Assign(p, NoFields, FALSE)
                 /\ Ran(p, {}, FALSE)
                 /\ Finish(p, Return(FALSE), "lockExists")
                 /\ UNCHANGED conns
       ELSE /\ Assign(p, NoFields, FALSE)
            /\ Ran(p, {"lockRead"}, FALSE)
            /\ Suspend(p, "lock_read")
            /\ UNCHANGED conns
    /\ UNCHANGED env

\* LockExists as it would be if the file were read without regard to the
\* answer of exists().
LockExistsReading(p) ==
    /\ Resume(p, "lock_exists")
    /\ Assign(p, NoFields, FALSE)
    /\ Ran(p, {"lockRead"}, FALSE)
    /\ Suspend(p, "lock_read")
    /\ UNCHANGED <<env, conns>>

\* exists() has answered.  Absent: parseLockFile returns false, and so does
\* setupClient when it was the caller (the log call in between changes
\* nothing).  Present: readTextFile is awaited.
LockExists(p) ==
    /\ Resume(p, "lock_exists")
    /\ Assign(p, NoFields, FALSE)
    /\ IF lockFile = Undef
       THEN /\ Ran(p, {}, FALSE)
            /\ Finish(p, Return(FALSE), "lockExists")
       ELSE /\ Ran(p, {"lockRead"}, FALSE)
            /\ Suspend(p, "lock_read")
    /\ UNCHANGED <<env, conns>>

\* What parseLockFile does once it holds the text of the file.
StoreLockInfo(p, text) ==
    /\ Assign(p, "apiInfo" :> InfoOf[text], FALSE)
    /\ IF op[p] = "setupClient"
       THEN Suspend(p, "lock_ret")
       ELSE Finish(p, Return(TRUE), "")

\* readTextFile has answered: with the text, or with a rejection when the
\* file went away after exists().
LockRead(p) ==
    /\ Resume(p, "lock_read")
    /\ Ran(p, {}, FALSE)
    /\ IF lockFile = Undef
       THEN /\ Assign(p, NoFields, FALSE)
            /\ Finish(p, Throw("readTextFile failed"), "lockRead")
       ELSE StoreLockInfo(p, Val(lockFile))
    /\ UNCHANGED <<env, conns>>

\* setupClient resumes after `await API.parseLockFile()` gave true.
LockReturn(p) ==
    /\ Resume(p, "lock_ret")
    /\ FromRoutingCheck(p, {}, FALSE)
    /\ UNCHANGED env

\* ---------------------------------------------------------- parseLogFile
ParseLogFile(p) ==
    /\ Begin(p, "parseLogFile")
    /\ Assign(p, NoFields, TRUE)
    /\ Ran(p, {"logExists"}, TRUE)
    /\ Suspend(p, "log_exists")
    /\ UNCHANGED <<env, conns>>

\* LogExists as it would be if a missing log were polled for once more.
LogExistsRetrying(p) ==
    /\ Resume(p, "log_exists")
    /\ Assign(p, NoFields, FALSE)
    /\ IF logFile = Undef
       THEN IF steps[p]["logExists"] < 2
            THEN /\ Ran(p, {"logExists"}, FALSE)
                 /\ Suspend(p, "log_exists")
            ELSE /\ Ran(p, {}, FALSE)
                 /\ Finish(p, Return(FALSE), "logExists")
       ELSE /\ Ran(p, {"logRead"}, FALSE)
            /\ Suspend(p, "log_read")
    /\ UNCHANGED <<env, conns>>

LogExists(p) ==
    /\ Resume(p, "log_exists")
    /\ Assign(p, NoFields, FALSE)
    /\ IF logFile = Undef
       THEN /\ Ran(p, {}, FALSE)
            /\ Finish(p, Return(FALSE), "logExists")
       ELSE /\ Ran(p, {"logRead"}, FALSE)
            /\ Suspend(p, "log_read")
    /\ UNCHANGED <<env, conns>>

\* StoreRouting as it would be if a failed match did not return false.
StoreRoutingContinuing(p, text) ==
    LET match == HostOf[text] IN
    /\ IF match = Undef
       THEN Assign(p, NoFields, FALSE)
       ELSE Assign(p, ("region" :> Val(match)[1]) @@ ("shard" :> Val(match)[2]), FALSE)
    /\ IF op[p] = "setupClient"
       THEN Suspend(p, "log_ret")
       ELSE Finish(p, Return(TRUE), "")

\* What parseLogFile does once it holds the text of the file.
StoreRouting(p, text) ==
    LET match == HostOf[text] IN
    IF match = Undef
    THEN /\ Assign(p, NoFields, FALSE)
         /\ Finish(p, Return(FALSE), "logMatch")
    ELSE /\ Assign(p, ("region" :> Val(match)[1]) @@ ("shard" :> Val(match)[2]), FALSE)
         /\ IF op[p] = "setupClient"
            THEN Suspend(p, "log_ret")
            ELSE Finish(p, Return(TRUE), "")

LogRead(p) ==
    /\ Resume(p, "log_read")
    /\ Ran(p, {}, FALSE)
    /\ IF logFile = Undef
       THEN /\ Assign(p, NoFields, FALSE)
            /\ Finish(p, Throw("readTextFile failed"), "logRead")
       ELSE StoreRouting(p, Val(logFile))
    /\ UNCHANGED <<env, conns>>

\* setupClient resumes after `await API.parseLogFile()` gave true.
LogReturn(p) ==
    /\ Resume(p, "log_ret")
    /\ FromFetches(p, {}, FALSE)
    /\ UNCHANGED env

\* ------------------------------------------- setupClient: fetch and derive
\* find as it would be if it kept the last entry that matches.
FindValorantLast(sessions) ==
    LET hits == {i \in 1..Len(sessions) : sessions[i].productId = "valorant"} IN
    IF hits = {} THEN Undef
    ELSE Some(sessions[CHOOSE i \in hits : \A j \in hits : i >= j])
\* Object.values(sessions).find(session => session.productId == "valorant")
FindValorant(sessions) ==
    LET hits == {i \in 1..Len(sessions) : sessions[i].productId = "valorant"} IN
    IF hits = {} THEN Undef
    ELSE Some(sessions[CHOOSE i \in hits : \A j \in hits : i <= j])

\* Derive as it would be if connectToSocket were called before the target
\* session is looked up and clientVersion assigned.
DeriveConnectingFirst(p, entitlements) ==
    LET first == ("entitlements" :> entitlements)
                 @@ ("authToken" :> entitlements.accessToken)
                 @@ ("playerUuid" :> Val(API.chatSession).puuid)
                 @@ ("entitlementToken" :> entitlements.token)
    IN ConnectToSocketBody(p, first, {}, FALSE)

\* setupClient after the third fetch: entitlements is the value fetched.
\* It assigns the snapshot and three derived values, looks up the target
\* session, and on a hit assigns clientVersion and calls connectToSocket.
Derive(p, entitlements) ==
    LET first == ("entitlements" :> entitlements)
                 @@ ("authToken" :> entitlements.accessToken)
                 @@ ("playerUuid" :> Val(API.chatSession).puuid)
                 @@ ("entitlementToken" :> entitlements.token)
        valorantSession == FindValorant(Val(API.riotSessions))
    IN IF valorantSession = Undef
       THEN /\ Assign(p, first, FALSE)
            /\ Ran(p, {}, FALSE)
            /\ Finish(p, Return(FALSE), "valorantSession")
            /\ UNCHANGED conns
       ELSE ConnectToSocketBody(
                p, first @@ ("clientVersion" :> Val(valorantSession).version),
                {}, FALSE)

\* StoreFetched as it would be if a snapshot that is already cached were
\* kept (as apiInfo and region are).
StoreFetchedOnce(p, v) ==
    CASE pc[p] = "chat" ->
            FetchLocal(p, "sessions", "product-session/v1/sessions",
                       IF IsSet(API.chatSession) THEN NoFields ELSE "chatSession" :> v,
                       {}, FALSE)
      [] pc[p] = "sessions" ->
            FetchLocal(p, "ent", "entitlements/v1/token",
                       "riotSessions" :> v, {}, FALSE)
      [] pc[p] = "ent" -> Derive(p, v)

\* setupClient resumes with the value v of the fetch it awaited.
StoreFetched(p, v) ==
    CASE pc[p] = "chat" ->
            FetchLocal(p, "sessions", "product-session/v1/sessions",
                       "chatSession" :> v, {}, FALSE)
      [] pc[p] = "sessions" ->
            FetchLocal(p, "ent", "entitlements/v1/token",
                       "riotSessions" :> v, {}, FALSE)
      [] pc[p] = "ent" -> Derive(p, v)

\* The local service answers one of setupClient's three fetches; a throw of
\* localRequest propagates out of setupClient.
FetchAnswered(p, resp) ==
    /\ pc[p] \in {"chat", "sessions", "ent"}
    /\ UNCHANGED <<calls, op, overlap>>
    /\ LET o == RequestResult(variant, resp) IN
       IF Returned(o) THEN StoreFetched(p, o.value)
       ELSE /\ Assign(p, NoFields, FALSE)
            /\ Ran(p, {}, FALSE)
            /\ FinishOn(p, o, Val(req[p]).url.path.ep, Some(resp))
            /\ UNCHANGED conns
    /\ UNCHANGED env
FetchResponse(p) ==
    /\ pc[p] \in {"chat", "sessions", "ent"}
    /\ \E resp \in Responses(Val(req[p]).url.path.ep) : FetchAnswered(p, resp)

\* -------------------------------------------------------- connectToSocket
ConnectToSocket(p) ==
    /\ Begin(p, "connectToSocket")
    /\ ConnectToSocketBody(p, NoFields, {}, TRUE)
    /\ UNCHANGED env

\* Desktop shell: after `await info("Connecting ...")` the handshake is
\* started with the port and password API.apiInfo holds now.
SockInfo(p) ==
    /\ Resume(p, "sock_info")
    /\ Len(conns) < MaxConns
    /\ conns' = Append(conns, NewConn(Val(API.apiInfo)))
    /\ Assign(p, NoFields, FALSE)
    /\ Ran(p, {"handshake"}, FALSE)
    /\ Await(p, "sock_connect", Undef, Len(conns) + 1)
    /\ UNCHANGED env

\* Desktop shell: WebSocket.connect settles.  Fulfilled: the connection is
\* stored in API.socket and true is returned; rejected: the catch returns
\* false and API.socket is not assigned.
SockConnect(p) ==
    /\ Resume(p, "sock_connect")
    /\ Ran(p, {}, FALSE)
    /\ \E opened \in BOOLEAN :
          IF opened
          THEN /\ conns' = [conns EXCEPT ![conn[p]].st = "open",
                                         ![conn[p]].first = First(conns[conn[p]], "open")]
               /\ Assign(p, "socket" :> conn[p], FALSE)
               /\ Finish(p, Return(TRUE), "")
          ELSE /\ conns' = [conns EXCEPT ![conn[p]].st = "closed",
                                         ![conn[p]].first = First(conns[conn[p]], "closed")]
               /\ Assign(p, NoFields, FALSE)
               /\ Finish(p, Return(FALSE), "handshake")
    /\ UNCHANGED env

\* Standalone: the events of a socket, each running the handler that
\* connectToSocket installed (onopen / onerror / onclose).
Event(c, st, v) ==
    /\ conns' = [conns EXCEPT ![c].st = st, ![c].promise = Resolve(conns[c], v),
                              ![c].first = First(conns[c], st)]
    /\ UNCHANGED <<env, API, op, pc, req, conn, result, answer, calls, hist>>
SockOpen(c) ==
    /\ variant = "bun"
    /\ conns[c].st = "connecting"
    /\ Event(c, "open", "true")
SockError(c) ==
    /\ variant = "bun"
    /\ conns[c].st \in {"connecting", "open"}
    /\ Event(c, "failed", "false")
\* The peer (or a failed handshake) closes the connection; in the desktop
\* shell no handler is installed, the connection just ends.
SockClose(c) ==
    /\ \/ variant = "bun" /\ conns[c].st \in {"connecting", "open", "failed"}
       \/ variant = "tauri" /\ conns[c].st = "open"
    /\ Event(c, "closed", "false")

\* Standalone: connectToSocket resumes once its promise is resolved.
SockWait(p) ==
    /\ Resume(p, "sock_wait")
    /\ conns[conn[p]].promise # "pending"
    /\ Assign(p, NoFields, FALSE)
    /\ Ran(p, {}, FALSE)
    /\ Finish(p, Return(conns[conn[p]].promise = "true"),
              IF conns[conn[p]].promise = "true" THEN "" ELSE "handshake")
    /\ UNCHANGED <<env, conns>>

\* ------------------------------------------------------------ accessors
\* The accessor table as it would be if getMatchData passed no selector.
AccessorsAllGlz ==
    [getEntitlementsToken |-> [api |-> "local", ep |-> "entitlements/v1/token", arg |-> "none", query |-> Undef],
     getChatSession |-> [api |-> "local", ep |-> "chat/v1/session", arg |-> "none", query |-> Undef],
     getSessions |-> [api |-> "local", ep |-> "product-session/v1/sessions", arg |-> "none", query |-> Undef],
     getHelp |-> [api |-> "local", ep |-> "help", arg |-> "none", query |-> Undef],
     getCurrentGame |-> [api |-> "remote", ep |-> "core-game/v1/players/", arg |-> "uuid", query |-> Undef],
     getGameData |-> [api |-> "remote", ep |-> "core-game/v1/matches/", arg |-> "id", query |-> Undef],
     getCurrentPregame |-> [api |-> "remote", ep |-> "pregame/v1/players/", arg |-> "uuid", query |-> Undef],
     getPregameData |-> [api |-> "remote", ep |-> "pregame/v1/matches/", arg |-> "id", query |-> Undef],
     getMatchHistory |-> [api |-> "remote", ep |-> "match-history/v1/history/", arg |-> "uuid", query |-> Some("pd")],
     getMatchData |-> [api |-> "remote", ep |-> "match-details/v1/matches/", arg |-> "id", query |-> Undef]]

\* The public accessors: which request function they use, the endpoint,
\* whether the interpolated argument defaults to API.playerUuid, and the
\* host selector they pass.
Accessors ==
    [getEntitlementsToken |-> [api |-> "local", ep |-> "entitlements/v1/token", arg |-> "none", query |-> Undef],
     getChatSession |-> [api |-> "local", ep |-> "chat/v1/session", arg |-> "none", query |-> Undef],
     getSessions |-> [api |-> "local", ep |-> "product-session/v1/sessions", arg |-> "none", query |-> Undef],
     getHelp |-> [api |-> "local", ep |-> "help", arg |-> "none", query |-> Undef],
     getCurrentGame |-> [api |-> "remote", ep |-> "core-game/v1/players/", arg |-> "uuid", query |-> Undef],
     getGameData |-> [api |-> "remote", ep |-> "core-game/v1/matches/", arg |-> "id", query |-> Undef],
     getCurrentPregame |-> [api |-> "remote", ep |-> "pregame/v1/players/", arg |-> "uuid", query |-> Undef],
     getPregameData |-> [api |-> "remote", ep |-> "pregame/v1/matches/", arg |-> "id", query |-> Undef],
     getMatchHistory |-> [api |-> "remote", ep |-> "match-history/v1/history/", arg |-> "uuid", query |-> Some("pd")],
     getMatchData |-> [api |-> "remote", ep |-> "match-details/v1/matches/", arg |-> "id", query |-> Some("pd")]]
AccessorNames == DOMAIN Accessors

\* The arguments a caller may pass for the interpolated value.
ArgsOf(a) ==
    CASE Accessors[a].arg = "none" -> {Undef}
      [] Accessors[a].arg = "uuid" -> {Undef, Some("u9")}
      [] OTHER -> {Some("m1")}

\* The accessors each variant offers and the values they take: the
\* standalone variant has no pre-game accessors, its getCurrentGameId takes
\* no parameter and its getMatchHistory has no default for playerUuid.
Offered(v) ==
    IF v = "tauri" THEN AccessorNames
    ELSE AccessorNames \ {"getCurrentPregame", "getPregameData"}
ArgsIn(v, a) ==
    IF v = "bun" /\ a = "getCurrentGame" THEN {Undef}
    ELSE IF v = "bun" /\ a = "getMatchHistory" THEN {Some("u9")}
    ELSE ArgsOf(a)

\* Number.prototype.toString of a non-negative integer: its decimal digits.
RECURSIVE NumberToString(_)
NumberToString(n) ==
    IF n < 10 THEN <<Digits[n + 1]>>
    ELSE NumberToString(n \div 10) \o <<Digits[(n % 10) + 1]>>
\* x?.toString(), args?.k and a ?? b.
OptToString(o) == IF o = Undef THEN Undef ELSE Some(NumberToString(Val(o)))
Field(args, k) == IF args = Undef THEN Undef ELSE Val(args)[k]
\* a ?? b as it would be if the default were always taken.
NullishAlways(o, d) == d
Nullish(o, d) == IF o = Undef THEN d ELSE Val(o)

\* The second argument of getMatchHistory: omitted, or an object in which
\* each of startIndex, endIndex and queue may be missing.
HistoryArgs ==
    {Undef} \cup
    {Some([startIndex |-> s, endIndex |-> e, queue |-> q]) :
        s \in {Undef, Some(0), Some(5)}, e \in {Undef, Some(0)},
        q \in {Undef, Some("unrated")}}
\* The URLSearchParams getMatchHistory builds.
HistoryParams(args) ==
    <<<<"startIndex", Nullish(OptToString(Field(args, "startIndex")), <<"0">>)>>,
      <<"endIndex", Nullish(OptToString(Field(args, "endIndex")), <<"2", "0">>)>>,
      <<"queue", Nullish(Field(args, "queue"), "competitive")>>>>
\* The second arguments an accessor can be given, and its query parameters.
MoreArgs(a) == IF a = "getMatchHistory" THEN HistoryArgs ELSE {Undef}
ParamsOf(a, args) == IF a = "getMatchHistory" THEN HistoryParams(args) ELSE <<>>

\* The accessor up to `await fetch(...)`.  localRequest reads
\* API.apiInfo.protocol first: with apiInfo undefined that read throws and
\* no request is sent.  remoteRequest reads only strings, so it sends.
\* (The call's name and arguments are kept with the request as history.)
AccessorBody(p, a, given, args) ==
    LET acc == Accessors[a]
        arg == IF acc.arg = "uuid" /\ given = Undef /\ ~(variant = "bun" /\ a = "getMatchHistory")
               THEN API.playerUuid ELSE given
        path == PathWith(acc.ep, arg, ParamsOf(a, args))
        call == [call |-> [name |-> a, given |-> given, args |-> args]]
    IN /\ Assign(p, NoFields, TRUE)
       /\ UNCHANGED conns
       /\ IF acc.api = "local" /\ API.apiInfo = Undef
          THEN /\ Ran(p, {}, TRUE)
               /\ Finish(p, Throw("TypeError: API.apiInfo is undefined"), "apiInfo")
          ELSE /\ Ran(p, {"request"}, TRUE)
               /\ Await(p, "request",
                        Some(call @@
                             (IF acc.api = "local"
                              THEN LocalRequest(API, path, NoOptions)
                              ELSE RemoteRequest(API, path, NoOptions, acc.query))),
                        0)

Accessor(p) ==
    /\ Begin(p, "accessor")
    /\ \E a \in Offered(variant) : \E given \in ArgsIn(variant, a) :
       \E args \in MoreArgs(a) : AccessorBody(p, a, given, args)
    /\ UNCHANGED env

\* AccessorResponse as it would be if getChatSession kept what it fetched.
AccessorResponseCaching(p) ==
    /\ Resume(p, "request")
    /\ Ran(p, {}, FALSE)
    /\ \E resp \in Responses(Val(req[p]).url.path.ep) :
          LET o == RequestResult(variant, resp) IN
          /\ IF Returned(o) /\ Val(req[p]).url.path.ep = "chat/v1/session"
             THEN Assign(p, "chatSession" :> o.value, FALSE)
             ELSE Assign(p, NoFields, FALSE)
          /\ FinishOn(p, o, IF Returned(o) THEN "" ELSE "request", Some(resp))
    /\ UNCHANGED <<env, conns>>

\* The service answers the accessor's request.
AccessorResponse(p) ==
    /\ Resume(p, "request")
    /\ Assign(p, NoFields, FALSE)
    /\ Ran(p, {}, FALSE)
    /\ \E resp \in Responses(Val(req[p]).url.path.ep) :
          LET o == RequestResult(variant, resp) IN
          FinishOn(p, o, IF Returned(o) THEN "" ELSE "request", Some(resp))
    /\ UNCHANGED <<env, conns>>

\* ------------------------------------------------------- the environment
\* The game client starts, restarts or exits: the lock file appears with
\* fresh credentials or goes away; the log is created, grows or is rotated.
LockFileChanges ==
    /\ lockFile' \in ({Undef} \cup {Some(t) : t \in LockTexts}) \ {lockFile}
    /\ UNCHANGED <<variant, logFile, fetchOrder, API, conns, op, pc, req, conn, result, answer, calls, hist>>
LogFileChanges ==
    /\ logFile' \in ({Undef} \cup {Some(t) : t \in LogTexts}) \ {logFile}
    /\ UNCHANGED <<variant, lockFile, fetchOrder, API, conns, op, pc, req, conn, result, answer, calls, hist>>

\* The steps of the calls in flight, of the sockets and of the game client.
Continue(p) ==
    \/ LockExists(p) \/ LockRead(p) \/ LockReturn(p)
    \/ LogExists(p) \/ LogRead(p) \/ LogReturn(p)
    \/ FetchResponse(p)
    \/ SockInfo(p) \/ SockConnect(p) \/ SockWait(p)
Surroundings ==
    \/ \E c \in 1..Len(conns) : SockOpen(c) \/ SockError(c) \/ SockClose(c)
    \/ LockFileChanges
    \/ LogFileChanges

\* ------------------------------------- the two request functions by themselves
\* Values of the requestInfo parameter (RequestOptions: a method, and
\* optionally headers and a body); NoOptions is the omitted argument.
RequestOptions ==
    {NoOptions,
     [method |-> "POST"],
     [method |-> "POST", body |-> "{}"],
     [method |-> "PUT", body |-> "{}",
      headers |-> [h \in {"Content-Type"} |-> Some("application/json")]]}
\* Values of args?.query.
Queries == {Undef, Some("pd"), Some("glz")}

\* The fields after a bootstrap that succeeded with the given lock file
\* and answers, its socket being connection 1.
Bootstrapped(lock, chat, ent) ==
    [f \in Fields |->
        CASE f = "apiInfo" -> Some(InfoOf[lock])
          [] f = "region" -> Some(Val(HostOf[LogNA])[1])
          [] f = "shard" -> Some(Val(HostOf[LogNA])[2])
          [] f = "chatSession" -> Some(Parsed[chat])
          [] f = "entitlements" -> Some(Parsed[ent])
          [] f = "riotSessions" -> Some(Parsed["sessRV"])
          [] f = "authToken" -> Some(Parsed[ent].accessToken)
          [] f = "playerUuid" -> Some(Parsed[chat].puuid)
          [] f = "clientVersion" -> Some(Val(FindValorant(Parsed["sessRV"])).version)
          [] f = "entitlementToken" -> Some(Parsed[ent].token)
          [] OTHER -> Some(1)]
OpenConn(info) ==
    [st |-> "open", port |-> info.port, password |-> info.password,
     promise |-> IF variant = "bun" THEN "true" ELSE "pending", first |-> "open"]

\* The state before any bootstrap, or after a successful one.
InitRequests ==
    /\ variant \in Variants
    /\ fetchOrder = CodeOrder
    /\ lockFile \in {Some(t) : t \in LockTexts}
    /\ logFile = Some(LogNA)
    /\ \/ /\ API = [f \in Fields |-> Undef]
          /\ conns = <<>>
          /\ fetchedWith = [f \in SessionState \cup DerivedIdentity |-> Undef]
          /\ writer = [f \in Fields |-> "none"]
       \/ /\ \E chat \in GoodBodies("chat/v1/session") :
             \E ent \in GoodBodies("entitlements/v1/token") :
                API = Bootstrapped(Val(lockFile), chat, ent)
          /\ conns = <<OpenConn(InfoOf[Val(lockFile)])>>
          /\ fetchedWith = [f \in SessionState \cup DerivedIdentity |->
                              Some(SendsWith(API))]
          /\ writer = [f \in Fields |-> "old"]
    /\ op = [p \in Procs |-> "setupClient"]
    /\ pc = [p \in Procs |-> "idle"]
    /\ req = [p \in Procs |-> Undef]
    /\ conn = [p \in Procs |-> 0]
    /\ result = [p \in Procs |-> Undef]
    /\ answer = [p \in Procs |-> Undef]
    /\ calls = 0
    /\ written = [p \in Procs |-> {}]
    /\ steps = [p \in Procs |-> [s \in StepNames |-> 0]]
    /\ failedAt = [p \in Procs |-> ""]
    /\ overlap = {}

\* localRequest(path, requestInfo) up to `await fetch(...)`: reading
\* API.apiInfo.protocol throws when apiInfo is undefined.
LocalRequestCall(p) ==
    /\ Begin(p, "localRequest")
    /\ Assign(p, NoFields, TRUE)
    /\ \E ep \in {Accessors[a].ep : a \in {a \in AccessorNames : Accessors[a].api = "local"}} :
       \E requestInfo \in RequestOptions :
          IF API.apiInfo = Undef
          THEN /\ Ran(p, {}, TRUE)
               /\ Finish(p, Throw("TypeError: API.apiInfo is undefined"), "apiInfo")
          ELSE /\ Ran(p, {"request"}, TRUE)
               /\ Await(p, "request",
                        Some(LocalRequest(API, Path(ep, Undef), requestInfo)), 0)
    /\ UNCHANGED <<env, conns>>

\* remoteRequest(path, requestInfo, args) up to `await fetch(...)`.
RemoteRequestCall(p) ==
    /\ Begin(p, "remoteRequest")
    /\ Assign(p, NoFields, TRUE)
    /\ Ran(p, {"request"}, TRUE)
    /\ \E ep \in {Accessors[a].ep : a \in {a \in AccessorNames : Accessors[a].api = "remote"}} :
       \E requestInfo \in RequestOptions : \E query \in Queries :
          Await(p, "request",
                Some(RemoteRequest(API, Path(ep, Some("m1")), requestInfo, query)), 0)
    /\ UNCHANGED <<env, conns>>

NextRequests ==
    \/ LocalRequestCall("p1")
    \/ RemoteRequestCall("p1")
    \/ AccessorResponse("p1")
SpecRequests == InitRequests /\ [][NextRequests]_vars

\* --------------------------------------------- the two locators by themselves
\* parseLockFile and parseLogFile called on files of any of the contents
\* above, which stay as they are.
InitLocators ==
    /\ variant \in Variants
    /\ lockFile \in {Undef} \cup {Some(t) : t \in LockContents}
    /\ logFile \in {Undef} \cup {Some(t) : t \in LogContents}
    /\ Fresh
NextLocators ==
    \/ ParseLockFile("p1") \/ LockExists("p1") \/ LockRead("p1")
    \/ ParseLogFile("p1") \/ LogExists("p1") \/ LogRead("p1")
SpecLocators == InitLocators /\ [][NextLocators]_vars

\* Two callers of parseLogFile while the game client writes the log.
NextLogs ==
    \/ \E p \in Procs : ParseLogFile(p) \/ LogExists(p) \/ LogRead(p)
    \/ LogFileChanges
SpecLogs == Init /\ [][NextLogs]_vars

\* ------------------------------------- the three fetches in any order
\* setupClient with its three fetch statements written in the order
\* fetchOrder, each still `API.<field> = await API.<getter>()`, called when
\* both locators have been resolved.
FieldOf(ep) ==
    CASE ep = "chat/v1/session" -> "chatSession"
      [] ep = "product-session/v1/sessions" -> "riotSessions"
      [] ep = "entitlements/v1/token" -> "entitlements"
InitAnyOrder ==
    /\ variant \in Variants
    /\ lockFile = Some(LockA)
    /\ logFile = Some(LogNA)
    /\ fetchOrder \in {o \in [1..3 -> {CodeOrder[i] : i \in 1..3}] :
                            \A i, j \in 1..3 : o[i] = o[j] => i = j}
    /\ API = [f \in Fields |->
                CASE f = "apiInfo" -> Some(InfoOf[LockA])
                  [] f = "region" -> Some(Val(HostOf[LogNA])[1])
                  [] f = "shard" -> Some(Val(HostOf[LogNA])[2])
                  [] OTHER -> Undef]
    /\ conns = <<>>
    /\ op = [p \in Procs |-> "setupClient"]
    /\ pc = [p \in Procs |-> "idle"]
    /\ req = [p \in Procs |-> Undef]
    /\ conn = [p \in Procs |-> 0]
    /\ result = [p \in Procs |-> Undef]
    /\ answer = [p \in Procs |-> Undef]
    /\ calls = 0
    /\ written = [p \in Procs |-> {}]
    /\ steps = [p \in Procs |-> [s \in StepNames |-> 0]]
    /\ failedAt = [p \in Procs |-> ""]
    /\ writer = [f \in Fields |-> "none"]
    /\ overlap = {}
    /\ fetchedWith = [f \in SessionState \cup DerivedIdentity |-> Undef]

\* The await of the k-th of the three fetches.
AwaitOf == <<"fetch1", "fetch2", "fetch3">>

\* setupClient up to the await of its first fetch; both checks at its top
\* find their field set.
SetupAnyOrder(p) ==
    /\ ~Falsy(API.apiInfo)
    /\ ~FalsyString(API.region)
    /\ Begin(p, "setupClient")
    /\ FetchLocal(p, AwaitOf[1], fetchOrder[1], NoFields,
                  {"apiInfoCached", "regionCached"}, TRUE)
    /\ UNCHANGED env

\* setupClient after the last fetch, which was for field f and gave v:
\* Derive with the three snapshots read from where they are by then.
DeriveAny(p, f, v) ==
    LET snap == [g \in SessionState |-> IF g = f THEN v ELSE Val(API[g])]
        first == (f :> v)
                 @@ ("authToken" :> snap["entitlements"].accessToken)
                 @@ ("playerUuid" :> snap["chatSession"].puuid)
                 @@ ("entitlementToken" :> snap["entitlements"].token)
        valorantSession == FindValorant(snap["riotSessions"])
    IN IF valorantSession = Undef
       THEN /\ Assign(p, first, FALSE)
            /\ Ran(p, {}, FALSE)
            /\ Finish(p, Return(FALSE), "valorantSession")
            /\ UNCHANGED conns
       ELSE ConnectToSocketBody(
                p, first @@ ("clientVersion" :> Val(valorantSession).version),
                {}, FALSE)

\* The local service answers the fetch setupClient awaits: the value is
\* assigned and the next fetch issued, or the throw propagates.
AnyOrderResponse(p) ==
    /\ pc[p] \in {AwaitOf[k] : k \in 1..3}
    /\ UNCHANGED <<calls, op, overlap>>
    /\ LET k == CHOOSE i \in 1..3 : AwaitOf[i] = pc[p]
           ep == fetchOrder[k]
       IN \E resp \in Responses(ep) :
             LET o == RequestResult(variant, resp) IN
             IF Returned(o)
             THEN IF k < 3
                  THEN FetchLocal(p, AwaitOf[k + 1], fetchOrder[k + 1],
                                  FieldOf(ep) :> o.value, {}, FALSE)
                  ELSE DeriveAny(p, FieldOf(ep), o.value)
             ELSE /\ Assign(p, NoFields, FALSE)
                  /\ Ran(p, {}, FALSE)
                  /\ FinishOn(p, o, ep, Some(resp))
                  /\ UNCHANGED conns
    /\ UNCHANGED env

NextAnyOrder ==
    \/ SetupAnyOrder("p1") \/ AnyOrderResponse("p1")
    \/ SockInfo("p1") \/ SockConnect("p1") \/ SockWait("p1")
    \/ \E c \in 1..Len(conns) : SockOpen(c) \/ SockError(c) \/ SockClose(c)
SpecAnyOrder == InitAnyOrder /\ [][NextAnyOrder]_vars

\* One caller that awaits each call before it makes the next, using every
\* public method.
Caller == "p1"
Next ==
    \/ SetupClient(Caller) \/ ParseLockFile(Caller) \/ ParseLogFile(Caller)
    \/ ConnectToSocket(Caller) \/ Accessor(Caller) \/ AccessorResponse(Caller)
    \/ Continue(Caller)
    \/ Surroundings
Spec == Init /\ [][Next]_vars

\* One caller of setupClient alone, every awaited operation settling in the
\* end: a file operation and a local request answer, the promise of
\* WebSocket.connect settles, and a socket that is being connected emits
\* open, error or close.
NextSetup ==
    \/ SetupClient(Caller)
    \/ Continue(Caller)
    \/ \E c \in 1..Len(conns) : SockOpen(c) \/ SockError(c) \/ SockClose(c)
SpecSetupFair ==
    /\ Init
    /\ [][NextSetup]_vars
    /\ WF_vars(Continue(Caller))
    /\ WF_vars(\E c \in 1..Len(conns) : SockOpen(c) \/ SockError(c) \/ SockClose(c))

\* Callers that start setupClient while another setupClient is in flight;
\* the two files stay as they are at the start.
NextConcurrent ==
    \/ \E p \in Procs : SetupClient(p) \/ Continue(p)
    \/ \E c \in 1..Len(conns) : SockOpen(c) \/ SockError(c) \/ SockClose(c)
SpecConcurrent == Init /\ [][NextConcurrent]_vars

\* =================================================================== claims
Done(p) == pc[p] = "done"
SetupDone(p) == op[p] = "setupClient" /\ Done(p)
Outcome(p) == Val(result[p])
ReturnedTrue(p) == SetupDone(p) /\ Outcome(p) = Return(TRUE)
ReturnedFalse(p) == SetupDone(p) /\ Outcome(p) = Return(FALSE)
SetupFailed(p) == SetupDone(p) /\ Outcome(p) # Return(TRUE)
LocalFetches == {"chat/v1/session", "product-session/v1/sessions",
                 "entitlements/v1/token"}
Refreshed == SessionState \cup DerivedIdentity \cup {"socket"}

\* C1 (as claimed): a setupClient call whose three local fetches succeeded
\* but whose session list has no "valorant" entry fails, and none of
\* authToken, playerUuid, entitlementToken, clientVersion was assigned by it.
C1_NoTargetSessionLeavesIdentityUnset ==
    \A p \in Procs :
        (/\ SetupDone(p)
         /\ "entitlements" \in written[p]
         /\ FindValorant(Val(API.riotSessions)) = Undef)
        => /\ SetupFailed(p)
           /\ written[p] \cap DerivedIdentity = {}

\* C2 (as claimed): apiInfo is never written by one setupClient call while
\* region, shard or a snapshot was written by another call that overlapped it.
C2_NoMixedInvocations ==
    \A f \in RoutingInfo \cup SessionState :
        (/\ writer["apiInfo"] \in Procs
         /\ writer[f] \in Procs
         /\ writer[f] # writer["apiInfo"])
        => <<writer["apiInfo"], writer[f]>> \notin overlap

\* C3 (as claimed): at most one socket connection opened by this process
\* is live.
C3_AtMostOneLiveSocket == Cardinality(Live) <= 1

\* C4 (as claimed): no request is in flight (so none was issued) while
\* apiInfo, region or shard is unresolved.
C4_RequestsOnlyWhenResolved ==
    \A p \in Procs :
        IsSet(req[p]) => IsSet(API.apiInfo) /\ IsSet(API.region) /\ IsSet(API.shard)

\* C5: a setupClient call that finds apiInfo set neither checks nor reads
\* the lock file and does not assign apiInfo; one that finds region set
\* neither checks nor reads the log file and assigns neither region nor shard.
C5_CachedValuesNotReResolved ==
    \A p \in Procs :
        op[p] = "setupClient" =>
            /\ steps[p]["apiInfoCached"] > 0 =>
                  /\ steps[p]["lockExists"] = 0
                  /\ steps[p]["lockRead"] = 0
                  /\ "apiInfo" \notin written[p]
            /\ steps[p]["regionCached"] > 0 =>
                  /\ steps[p]["logExists"] = 0
                  /\ steps[p]["logRead"] = 0
                  /\ written[p] \cap RoutingInfo = {}
\* A later setupClient call has ended with both values cached although the
\* lock file now holds other credentials than apiInfo.
C5_Witness ==
    \E p \in Procs :
        /\ SetupDone(p)
        /\ steps[p]["apiInfoCached"] = 1
        /\ steps[p]["regionCached"] = 1
        /\ IsSet(lockFile)
        /\ Val(API.apiInfo) # InfoOf[Val(lockFile)]

\* C6 (as claimed): after every setupClient call, each snapshot, each
\* derived value and the socket has been assigned by that call.
C6_RefreshedOnEveryCall ==
    \A p \in Procs : SetupDone(p) => Refreshed \subseteq written[p]
\* C6 (amended): after every setupClient call that returns true, each
\* snapshot, each derived value and the socket has been assigned by that call.
C6_RefreshedOnSuccess ==
    \A p \in Procs : ReturnedTrue(p) => Refreshed \subseteq written[p]
\* A setupClient call that found apiInfo cached (a later call) returned true.
C6_Witness ==
    \E p \in Procs : ReturnedTrue(p) /\ steps[p]["apiInfoCached"] = 1

\* C7 (as claimed): a setupClient call that failed has assigned no snapshot,
\* no derived value and no socket.
C7_FailureLeavesNoPartialState ==
    \A p \in Procs : SetupFailed(p) => written[p] \cap Refreshed = {}

\* C8 (as claimed): a call that ended on a response with a status other
\* than 200 threw an error carrying that status and body (and so returned
\* no parsed data).
C8_Non200FailsWithStatusAndBody ==
    \A p \in Procs :
        (/\ Done(p)
         /\ IsSet(answer[p])
         /\ Val(answer[p]).success
         /\ Val(answer[p]).status # 200)
        => /\ Outcome(p).kind = "throw"
           /\ Outcome(p).detail = Some(<<Val(answer[p]).status, Val(answer[p]).body>>)

\* C9: a setupClient call that checked for the lock file (apiInfo was
\* absent) and did not read it (the file was missing) is over at once: it
\* returns false, having run no other step and assigned no field.
C9_MissingLockFileStopsSetup ==
    \A p \in Procs :
        (/\ op[p] = "setupClient"
         /\ steps[p]["lockExists"] = 1
         /\ steps[p]["lockRead"] = 0)
        => /\ pc[p] \in {"lock_exists", "done"}
           /\ Done(p) => Outcome(p) = Return(FALSE)
           /\ \A s \in StepNames \ {"lockExists"} : steps[p][s] = 0
           /\ written[p] = {}
C9_Witness ==
    \E p \in Procs :
        /\ SetupDone(p)
        /\ steps[p]["lockExists"] = 1
        /\ steps[p]["lockRead"] = 0
        /\ lockFile = Undef

\* C10: a setupClient call that ran the routing locator (region was absent)
\* without assigning region has failed, has sent no request and started no
\* handshake, and has assigned neither region nor shard, which are unset
\* unless another caller assigned them meanwhile; until it ends it is still
\* inside parseLogFile.
C10_FailedRoutingStopsSetup ==
    \A p \in Procs :
        (/\ op[p] = "setupClient"
         /\ steps[p]["logExists"] = 1
         /\ "region" \notin written[p])
        => /\ pc[p] \in {"log_exists", "log_read", "done"}
           /\ Done(p) => SetupFailed(p)
           /\ \A s \in LocalFetches \cup {"handshake", "request"} : steps[p][s] = 0
           /\ written[p] \cap RoutingInfo = {}
           /\ (\A f \in RoutingInfo : writer[f] \notin Procs \ {p})
                 => API.region = Undef /\ API.shard = Undef
\* The log exists but names no host, and the call has ended.
C10_Witness ==
    \E p \in Procs :
        /\ SetupDone(p)
        /\ steps[p]["logRead"] = 1
        /\ failedAt[p] = "logMatch"
        /\ logFile = Some(LogBoot)

\* The connection of the call the (single) caller made last, once that call
\* has started a handshake: the connection created last.
LastConn == conns[Len(conns)]
Handshaken(p) == Done(p) /\ steps[p]["handshake"] = 1

\* C11: a call that started a handshake and has ended reports success if and
\* only if open was the first of the connection's open / error / close, and
\* failure if and only if error or close was; this stays so whatever events
\* the connection has afterwards.
C11_ResolvesOnceByFirstEvent ==
    \A p \in Procs :
        Handshaken(p) =>
            /\ Outcome(p) \in {Return(TRUE), Return(FALSE)}
            /\ Outcome(p) = Return(TRUE) <=> LastConn.first = "open"
            /\ Outcome(p) = Return(FALSE) <=> LastConn.first \in {"failed", "closed"}
\* connectToSocket has reported success and the connection has closed since.
C11_Witness ==
    \E p \in Procs :
        /\ Handshaken(p)
        /\ op[p] = "connectToSocket"
        /\ Outcome(p) = Return(TRUE)
        /\ LastConn.st = "closed"
        /\ variant = "bun"

\* C12 (as claimed): API.socket is set only if the handshake of the
\* connection it holds has completed successfully.
C12_SocketOnlyAfterHandshake ==
    IsSet(API.socket) => conns[Val(API.socket)].first = "open"

\* The kind of step a failed setupClient gave up at.
StepKind(at) ==
    CASE at \in {"lockExists", "lockRead"} -> "credentials"
      [] at \in {"logExists", "logRead", "logMatch"} -> "routing"
      [] at = "valorantSession" -> "target session"
      [] at \in LocalFetches -> "local http"
      [] at \in {"handshake", "apiInfo"} -> "socket"
      [] OTHER -> ""

\* C13 (as claimed): the result of a failed setupClient identifies the kind
\* of step that failed: two failed calls with the same result gave up at
\* the same kind of step.
C13_ResultIdentifiesFailingStep ==
    \A p, q \in Procs :
        (SetupFailed(p) /\ SetupFailed(q) /\ Outcome(p) = Outcome(q))
        => StepKind(failedAt[p]) = StepKind(failedAt[q])

\* C14: a setupClient call, in flight or ended, has run each of its steps at
\* most once: the lock file check and read, the log file check and read,
\* each of the three local requests, and the socket handshake.
C14_NoRetry ==
    \A p \in Procs :
        op[p] = "setupClient" => \A s \in StepNames : steps[p][s] <= 1
\* A setupClient call has failed at the handshake, after running every step
\* from the lock file on.
C14_Witness ==
    \E p \in Procs :
        /\ SetupDone(p)
        /\ failedAt[p] = "handshake"
        /\ \A s \in StepNames \ {"apiInfoCached", "regionCached", "request"} :
              steps[p][s] = 1

\* C15 (as claimed): once apiInfo is set, no step changes its value.
C15_ApiInfoImmutable ==
    [][IsSet(API.apiInfo) => API'.apiInfo = API.apiInfo]_vars

\* The lock file holds other credentials than the cached ones: the game
\* client has restarted since apiInfo was resolved.
Restarted ==
    /\ IsSet(API.apiInfo)
    /\ IsSet(lockFile)
    /\ Val(API.apiInfo) # InfoOf[Val(lockFile)]
\* The step is the start of a setupClient call of caller p (which always
\* runs to one of these three awaits first).
SetupStarts(p) ==
    /\ ~Running(p)
    /\ calls' = calls + 1
    /\ op'[p] = "setupClient"
    /\ pc'[p] \in {"lock_exists", "log_exists", "chat"}

\* C16 (as claimed): a setupClient call started after the game client has
\* restarted runs the credential locator again (it checks for the lock file).
C16_RestartReResolves ==
    [][\A p \in Procs :
          (Restarted /\ SetupStarts(p)) => steps'[p]["lockExists"] = 1]_vars

\* C17 (as claimed): every derived value that is set was read from a
\* snapshot fetched with the port and credentials of the cached apiInfo.
C17_IdentityFetchedWithCachedApiInfo ==
    \A f \in DerivedIdentity :
        IsSet(API[f]) =>
            /\ IsSet(API.apiInfo)
            /\ fetchedWith[f] = Some(SendsWith(API))

\* C18: no step of an accessor call, from its start to its return or throw,
\* changes a static field of API.
C18_AccessorsOnlyRead ==
    [][op'[Caller] = "accessor" => API' = API]_vars
\* After a successful bootstrap, an accessor call has returned data.
C18_Witness ==
    /\ op[Caller] = "accessor"
    /\ Done(Caller)
    /\ Returned(Outcome(Caller))
    /\ \A f \in Fields : IsSet(API[f])

\* The headers a request lacks or carries with another value.
Carries(r, h, v) ==
    /\ "headers" \in DOMAIN r.init
    /\ h \in DOMAIN r.init.headers
    /\ r.init.headers[h] = v

\* C19 (as claimed): every request remoteRequest has sent carries the
\* client-platform constant, the cached clientVersion, the cached
\* entitlementToken and "Bearer " with the cached authToken.
C19_RemoteRequestCarriesHeaders ==
    \A p \in Procs :
        (IsSet(req[p]) /\ Val(req[p]).kind = "remote") =>
            /\ Carries(Val(req[p]), "X-Riot-ClientPlatform", Some(ClientPlatform))
            /\ Carries(Val(req[p]), "X-Riot-ClientVersion", API.clientVersion)
            /\ Carries(Val(req[p]), "X-Riot-Entitlements-JWT", API.entitlementToken)
            /\ Carries(Val(req[p]), "Authorization", Some(Bearer(API.authToken)))

\* C20 (as claimed): every request localRequest has sent carries Basic
\* authentication of user "riot" with the cached password.
C20_LocalRequestCarriesBasicAuth ==
    \A p \in Procs :
        (IsSet(req[p]) /\ Val(req[p]).kind = "local") =>
            Carries(Val(req[p]), "Authorization",
                    Some(BasicAuth(Val(API.apiInfo).password)))

\* C21: the request of every remoteRequest call goes to the pd host of the
\* cached shard if and only if the selector passed is "pd", and otherwise
\* ("glz" or no selector) to the glz host of the cached region and shard,
\* whatever the path is.
C21_HostBySelectorAlone ==
    \A p \in Procs :
        (IsSet(req[p]) /\ Val(req[p]).kind = "remote") =>
            LET r == Val(req[p]) IN
            /\ r.url.host = "pd" <=> r.query = Some("pd")
            /\ r.url.host = "glz" <=> r.query # Some("pd")
            /\ r.url.shard = API.shard
            /\ r.url.region = IF r.query = Some("pd") THEN Undef ELSE API.region
\* A live-game path was requested with the selector "pd".
C21_Witness ==
    \E p \in Procs :
        /\ IsSet(req[p])
        /\ Val(req[p]).kind = "remote"
        /\ Val(req[p]).query = Some("pd")
        /\ Val(req[p]).url.path.ep = "core-game/v1/players/"
        /\ Val(req[p]).url.host = "pd"
        /\ IsSet(API.shard)

\* The accessor call, if any, whose request caller p is waiting on.
Calling(p) ==
    IF IsSet(req[p]) /\ "call" \in DOMAIN Val(req[p])
    THEN Val(req[p]).call.name ELSE ""

\* C22: the request of getMatchHistory and getMatchData goes to the pd host
\* of the cached shard; the request of getCurrentGame, getGameData,
\* getCurrentPregame and getPregameData goes to the glz host of the cached
\* region and shard.
C22_AccessorsTargetTheirHost ==
    \A p \in Procs :
        LET url == Val(req[p]).url IN
        /\ Calling(p) \in {"getMatchHistory", "getMatchData"} =>
              url.host = "pd" /\ url.shard = API.shard
        /\ Calling(p) \in {"getCurrentGame", "getGameData",
                           "getCurrentPregame", "getPregameData"} =>
              url.host = "glz" /\ url.region = API.region /\ url.shard = API.shard
\* With the routing resolved, getMatchData is waiting for the pd host of
\* shard "na".
C22_Witness ==
    \E p \in Procs :
        /\ Calling(p) = "getMatchData"
        /\ Val(req[p]).url.host = "pd"
        /\ Val(req[p]).url.shard = Some(<<"n", "a">>)

\* What the claim expects for parameter k of the call's second argument
\* (shown: the decimal text of the numbers passed).
Expected(args, k, default) ==
    LET shown == (0 :> <<"0">>) @@ (5 :> <<"5">>) IN
    IF args = Undef \/ Val(args)[k] = Undef THEN default
    ELSE IF k = "queue" THEN Val(Val(args)[k]) ELSE shown[Val(Val(args)[k])]

\* C23: the request of getMatchHistory has the parameters startIndex,
\* endIndex and queue, in this order; each is the value passed for it (0
\* included) or, when none was passed, 0, 20 and "competitive".
C23_HistoryDefaults ==
    \A p \in Procs :
        Calling(p) = "getMatchHistory" =>
            LET args == Val(req[p]).call.args IN
            Val(req[p]).url.path.params =
                <<<<"startIndex", Expected(args, "startIndex", <<"0">>)>>,
                  <<"endIndex", Expected(args, "endIndex", <<"2", "0">>)>>,
                  <<"queue", Expected(args, "queue", "competitive")>>>>
\* getMatchHistory was called with startIndex 0 and a queue but no endIndex.
C23_Witness ==
    \E p \in Procs :
        /\ Calling(p) = "getMatchHistory"
        /\ Val(req[p]).call.args =
              Some([startIndex |-> Some(0), endIndex |-> Undef, queue |-> Some("unrated")])
        /\ Val(req[p]).url.path.params =
              <<<<"startIndex", <<"0">>>>, <<"endIndex", <<"2", "0">>>>,
                <<"queue", "unrated">>>>

\* The object the claim expects in apiInfo for each content of five
\* fields whose second and third field are decimal numbers.
Wanted ==
    (LockA :>
        [username |-> Some(<<"r", "i", "o", "t">>), processId |-> Some(71),
         port |-> Some(52), password |-> Some(<<"p", "w", "A">>),
         protocol |-> Some(<<"h", "t", "t", "p", "s">>)])
    @@ (LockB :>
        [username |-> Some(<<"r", "i", "o", "t">>), processId |-> Some(93),
         port |-> Some(64), password |-> Some(<<"p", "w", "B">>),
         protocol |-> Some(<<"h", "t", "t", "p", "s">>)])
    @@ (LockNewline :>
        [username |-> Some(<<"r", "i", "o", "t">>), processId |-> Some(71),
         port |-> Some(52), password |-> Some(<<"p", "w", "A">>),
         protocol |-> Some(<<"h", "t", "t", "p", "s", "\n">>)])

\* C24 (as claimed): parseLockFile on a file of exactly five fields (four
\* colons) returns true and stores the five fields in order, processId and
\* port as numbers.
C24_FiveFieldsParsed ==
    \A p \in Procs :
        (/\ op[p] = "parseLockFile" /\ Done(p) /\ IsSet(lockFile)
         /\ Cardinality({i \in 1..Len(Val(lockFile)) : Val(lockFile)[i] = ":"}) = 4)
        => /\ Outcome(p) = Return(TRUE)
           /\ IsSet(Val(API.apiInfo).processId)
           /\ IsSet(Val(API.apiInfo).port)
           /\ Val(lockFile) \in DOMAIN Wanted => Val(API.apiInfo) = Wanted[Val(lockFile)]
\* C24 (amended): parseLockFile on a file of exactly five fields whose
\* second and third field are decimal numbers returns true and stores the
\* five fields in order, processId and port as the numbers written.
C24_NumericFiveFieldsParsed ==
    \A p \in Procs :
        (/\ op[p] = "parseLockFile" /\ Done(p) /\ IsSet(lockFile)
         /\ Val(lockFile) \in DOMAIN Wanted)
        => /\ Outcome(p) = Return(TRUE)
           /\ "apiInfo" \in written[p]
           /\ Val(API.apiInfo) = Wanted[Val(lockFile)]
\* parseLockFile has ended on the file whose last field ends the line.
C24_Witness ==
    \E p \in Procs :
        op[p] = "parseLockFile" /\ Done(p) /\ lockFile = Some(LockNewline)

\* C25 (as claimed): parseLockFile on a file that has not exactly five
\* fields with a numeric processId and port does not return true and stores
\* no apiInfo.
C25_MalformedLockFileFails ==
    \A p \in Procs :
        (/\ op[p] = "parseLockFile" /\ Done(p) /\ IsSet(lockFile)
         /\ Val(lockFile) \in LockMalformed)
        => /\ Outcome(p) # Return(TRUE)
           /\ "apiInfo" \notin written[p]

\* C26: when exists() answers a parseLockFile call that the lock file is
\* missing, the call ends there returning false: the file is not read and
\* no field changes.
C26_MissingLockFileIsFalse ==
    [][\A p \in Procs :
          (/\ op[p] = "parseLockFile"
           /\ pc[p] = "lock_exists"
           /\ lockFile = Undef
           /\ pc'[p] # pc[p])
          => /\ pc'[p] = "done"
             /\ result'[p] = Some(Return(FALSE))
             /\ steps'[p]["lockRead"] = 0
             /\ API' = API]_vars
\* parseLockFile has returned false without reading, apiInfo being set by
\* an earlier call.
C26_Witness ==
    \E p \in Procs :
        /\ op[p] = "parseLockFile"
        /\ Done(p)
        /\ Outcome(p) = Return(FALSE)
        /\ steps[p]["lockExists"] = 1
        /\ steps[p]["lockRead"] = 0
        /\ IsSet(API.apiInfo)

\* text contains word.
Contains(text, word) ==
    \E i \in 1..(Len(text) - Len(word) + 1) :
        \A k \in 1..Len(word) : text[i + k - 1] = word[k]

\* C27 (as claimed): parseLogFile on a log that contains
\* https://glz-na-1.na.a.pvp.net returns true with region and shard "na".
C27_LogWithNaHostGivesNa ==
    \A p \in Procs :
        (/\ op[p] = "parseLogFile"
         /\ Done(p)
         /\ IsSet(logFile)
         /\ Contains(Val(logFile), HostNA))
        => /\ Outcome(p) = Return(TRUE)
           /\ API.region = Some(<<"n", "a">>)
           /\ API.shard = Some(<<"n", "a">>)

\* C28 (as claimed): two parseLogFile calls that failed with the same
\* result failed for the same reason (the log missing, or no host in it).
C28_NoMatchDistinctFromMissing ==
    \A p, q \in Procs :
        (/\ op[p] = "parseLogFile" /\ Done(p) /\ Outcome(p) # Return(TRUE)
         /\ op[q] = "parseLogFile" /\ Done(q) /\ Outcome(q) # Return(TRUE)
         /\ Outcome(p) = Outcome(q))
        => failedAt[p] = failedAt[q]

\* C29: in a setupClient call, routing is resolved only after credentials,
\* a local fetch is issued only after both are resolved, a derived value is
\* assigned only after all three fetches, and the handshake starts only
\* after clientVersion (and the rest of DerivedIdentity) is assigned.
C29_StepsInFixedOrder ==
    \A p \in Procs :
        LET hasCredentials ==
                steps[p]["apiInfoCached"] > 0 \/ "apiInfo" \in written[p]
            hasRouting ==
                steps[p]["regionCached"] > 0 \/ RoutingInfo \subseteq written[p]
            routingBegun ==
                \/ steps[p]["regionCached"] > 0
                \/ steps[p]["logExists"] > 0
                \/ steps[p]["logRead"] > 0
            fetchBegun == \E ep \in LocalFetches : steps[p][ep] > 0
            fetchesOver ==
                /\ \A ep \in LocalFetches : steps[p][ep] = 1
                /\ SessionState \subseteq written[p]
        IN op[p] = "setupClient" =>
            /\ routingBegun => hasCredentials
            /\ fetchBegun => hasCredentials /\ hasRouting
            /\ written[p] \cap DerivedIdentity # {} => fetchesOver
            /\ steps[p]["handshake"] > 0 =>
                  /\ fetchesOver
                  /\ DerivedIdentity \subseteq written[p]
            /\ "socket" \in written[p] => steps[p]["handshake"] > 0
\* A setupClient call that resolved both locators itself has returned true.
C29_Witness ==
    \E p \in Procs :
        /\ ReturnedTrue(p)
        /\ steps[p]["lockRead"] = 1
        /\ steps[p]["logRead"] = 1
        /\ steps[p]["handshake"] = 1

C31_FirstValorantSession ==
    \A p \in Procs :
        LET list == Val(API.riotSessions)
            valorant == {i \in 1..Len(list) : list[i].productId = "valorant"}
        IN (op[p] = "setupClient" /\ "entitlements" \in written[p]) =>
              IF valorant = {}
              THEN /\ Done(p)
                   /\ Outcome(p) = Return(FALSE)
                   /\ failedAt[p] = "valorantSession"
                   /\ "clientVersion" \notin written[p]
              ELSE /\ "clientVersion" \in written[p]
                   /\ \E i \in valorant :
                         /\ \A j \in valorant : i <= j
                         /\ API.clientVersion = Some(list[i].version)
\* setupClient has returned true on a list of a riot_client entry followed
\* by two valorant entries.
C31_Witness ==
    \E p \in Procs :
        /\ ReturnedTrue(p)
        /\ Len(Val(API.riotSessions)) = 3
        /\ Val(API.riotSessions)[1].productId = "riot_client"
        /\ Val(API.riotSessions)[3].productId = "valorant"
        /\ API.clientVersion = Some("v1")

\* C32 (as claimed): at the step at which a setupClient call returns true,
\* apiInfo, region, shard and the three snapshots are set, authToken,
\* entitlementToken and playerUuid are the values in the snapshots,
\* clientVersion is the version of a "valorant" entry of riotSessions, and the
\* handshake of the connection the call waited on succeeded.
C32_SuccessMeansBootstrapped ==
    [][\A p \in Procs :
          (/\ op'[p] = "setupClient"
           /\ pc[p] # "done"
           /\ pc'[p] = "done"
           /\ result'[p] = Some(Return(TRUE)))
          => /\ \A f \in {"apiInfo", "region", "shard"} \cup SessionState
                      \cup DerivedIdentity : IsSet(API'[f])
             /\ API'.authToken = Some(Val(API'.entitlements).accessToken)
             /\ API'.entitlementToken = Some(Val(API'.entitlements).token)
             /\ API'.playerUuid = Some(Val(API'.chatSession).puuid)
             /\ \E i \in 1..Len(Val(API'.riotSessions)) :
                   /\ Val(API'.riotSessions)[i].productId = "valorant"
                   /\ API'.clientVersion = Some(Val(API'.riotSessions)[i].version)
             /\ conn[p] \in 1..Len(conns')
             /\ conns'[conn[p]].first = "open"]_vars

\* C33 (as claimed): in every state, each of authToken, entitlementToken and
\* playerUuid that is set is the value in the cached snapshot it is derived
\* from.
C33_DerivedAgreeWithSnapshots ==
    /\ IsSet(API.authToken) =>
          API.authToken = Some(Val(API.entitlements).accessToken)
    /\ IsSet(API.entitlementToken) =>
          API.entitlementToken = Some(Val(API.entitlements).token)
    /\ IsSet(API.playerUuid) =>
          API.playerUuid = Some(Val(API.chatSession).puuid)

\* C34 (as claimed): when the local service answers a fetch of setupClient
\* with a transport failure or a status other than 200, the call ends there
\* with an error thrown, having assigned no DerivedIdentity field and
\* started no handshake.
C34_FailedFetchPropagates ==
    [][\A p \in Procs :
          pc[p] \in {"chat", "sessions", "ent"} =>
              \A resp \in Responses(Val(req[p]).url.path.ep) :
                  ((~resp.success \/ resp.status # 200) /\ FetchAnswered(p, resp))
                  => /\ pc'[p] = "done"
                     /\ ~Returned(Val(result'[p]))
                     /\ written'[p] \cap DerivedIdentity = {}
                     /\ steps'[p]["handshake"] = 0]_vars

\* C35 (as claimed): a localRequest / remoteRequest call that ended on a
\* response returned data exactly if the other variant returns data on that
\* response.
C35_VariantsClassifyAlike ==
    \A p \in Procs :
        (op[p] \in {"localRequest", "remoteRequest"} /\ Done(p) /\ IsSet(answer[p])) =>
            (Returned(Outcome(p)) <=>
             Returned(RequestResult(IF variant = "tauri" THEN "bun" ELSE "tauri",
                                    Val(answer[p]))))

\* C36: a setupClient call in flight eventually ends (returning true or
\* false, or throwing), given that the operations it awaits settle.
C36_SetupClientCompletes ==
    \A p \in Procs : InSetup(p) ~> (op[p] = "setupClient" /\ Done(p))
\* A setupClient call has ended after waiting for a handshake that failed.
C36_Witness ==
    \E p \in Procs :
        /\ ReturnedFalse(p)
        /\ steps[p]["handshake"] = 1
        /\ failedAt[p] = "handshake"

\* C37: a connectToSocket call made while apiInfo is unset ends at once
\* returning false: no connection is created, no handshake started and the
\* socket field (like every other field) is left as it is.
C37_NoApiInfoNoSocket ==
    [][\A p \in Procs :
          (/\ ~Running(p)
           /\ calls' = calls + 1
           /\ op'[p] = "connectToSocket"
           /\ ~IsSet(API.apiInfo))
          => /\ pc'[p] = "done"
             /\ result'[p] = Some(Return(FALSE))
             /\ conns' = conns
             /\ steps'[p]["handshake"] = 0
             /\ API' = API]_vars
\* connectToSocket has returned false for want of apiInfo.
C37_Witness ==
    \E p \in Procs :
        /\ op[p] = "connectToSocket"
        /\ Done(p)
        /\ Outcome(p) = Return(FALSE)
        /\ failedAt[p] = "apiInfo"
        /\ ~IsSet(API.apiInfo)
        /\ ~IsSet(API.socket)
        /\ conns = <<>>

\* C38: in the desktop shell, a request goes to the outbound primitive with
\* the method given, or GET when none is given; a call that ended on an
\* answer of the primitive ended with the shim's error exactly if the
\* answer has success = false, and the shim returns every answer with
\* success = true as it is (status, body and headers), whatever the status.
C38_ShimFailsOnlyOnTransportFailure ==
    \A p \in Procs :
        variant = "tauri" =>
            /\ IsSet(req[p]) =>
                  Val(req[p]).invoked.method =
                      (IF "method" \in DOMAIN Val(req[p]).init
                       THEN Val(req[p]).init.method ELSE "GET")
            /\ (Done(p) /\ IsSet(answer[p])) =>
                  /\ (/\ Outcome(p).kind = "throw"
                      /\ Outcome(p).message = "Unable to complete HTTP request.")
                     <=> ~Val(answer[p]).success
                  /\ Val(answer[p]).success =>
                        /\ Returned(ShimFetch(Val(answer[p])))
                        /\ ShimFetch(Val(answer[p])).value = Val(answer[p])
\* In the desktop shell a call has ended on a 404 answer that the shim let
\* through: the error is the one of the status check.
C38_Witness ==
    \E p \in Procs :
        /\ variant = "tauri"
        /\ Done(p)
        /\ IsSet(answer[p])
        /\ Val(answer[p]).success
        /\ Val(answer[p]).status = 404
        /\ Outcome(p).message = "Failed to fetch data."

====
